---- MODULE Spec2Model ----
(***************************************************************************)
(* Model of apps/api/public/fix-vergo-files.py: the regex clean-up         *)
(* pipeline of fix_file and the driver loop of main.                       *)
(*                                                                         *)
(* A text is a sequence of tokens.  Each token stands for one fixed        *)
(* substring, so that two texts are equal as strings exactly when they     *)
(* are equal as token sequences:                                           *)
(*   "nl" = "\n", "sp" = " ", "cr" = "\r" (on disk only), "x" = "a",       *)
(*   "LB" = "{", "RB" = "}", "LT" = "<" (a less-than sign in script text), *)
(*   "E"  = the cloudflare email-decode script tag,                        *)
(*   "CM" / "CS" = the vergo-mobile.css / vergo-styles.css link tags,      *)
(*   "FC" = "<!-- Footer -->",                                             *)
(*   "U" "N" "F" "A" = the vergo-utils / nav / footer / analytics          *)
(*         script includes,  "B" = "</body>",                              *)
(*   "SO" = "<script>", "SC" = "</script>", "US" = "'use strict';",        *)
(*   "TM" = "function toggleMenu()", "TD" = "function toggleDropdown",     *)
(*   "DA" = "document.addEventListener".                                   *)
(* Files are assumed readable and valid UTF-8 (open() raises nothing).     *)
(***************************************************************************)
EXTENDS Naturals, Sequences, FiniteSets, TLC

\* fs           the working directory: path -> what the file holds, or NoFile
\* mpc          where main is: "start" (not run yet), "loop", "done", "aborted"
\* i            the position of the for loop of main in PUBLIC_PAGES
\* fixed_count  the counter of main
\* reported     the count main printed, "none" before it does
\* pc           where fix_file is: "call" (between calls), then "email", "css",
\*              "footer", "inline", "simple", "shared", "blank", "cmp", "write"
\* content, original, changes   the locals of fix_file (has_utils, which no
\*              statement reads, is left out)
\* io           history: the files opened in this run, <<"r" or "w", path>>
\* fs0          history: the directory as it was when this run started
\* runs         how many times the script was started
\* prev         history: for each page, what it held on disk before the last
\*              run that changed it (NoFile if no run has)
VARIABLES fs, mpc, i, fixed_count, reported, pc, content, original, changes,
          io, fs0, runs, prev

vars == <<fs, mpc, i, fixed_count, reported, pc, content, original, changes,
          io, fs0, runs, prev>>

----------------------------------------------------------------------------
(* Bounds of the model *)

\* how many entries of the page list the model iterates over
NumPages == 2

\* how many times the script is run in a row
MaxRuns == 2

\* how many pieces an input text is built from
MaxLen == 3

----------------------------------------------------------------------------
(* Character classes *)

\* \s of the re module
Space == {"nl", "sp", "cr"}

\* the tokens that hold a "<"
LtTokens == {"E", "CM", "CS", "FC", "U", "N", "F", "A", "B", "SO", "SC", "LT"}

\* the tokens that hold a "}"
RbTokens == {"RB"}

Tokens == Space \cup LtTokens \cup RbTokens \cup {"x", "LB", "US", "TM", "TD", "DA"}

\* [^<] and [^}]
NotLt == Tokens \ LtTokens
NotRb == Tokens \ RbTokens

----------------------------------------------------------------------------
(* Program constants *)

AllPages == <<"index.html", "hire-staff.html", "hire-us.html", "about.html",
              "contact.html", "apply.html", "jobs.html", "job-detail.html",
              "faq.html", "pricing.html", "blog.html", "privacy.html",
              "terms.html", "post-job.html">>

PUBLIC_PAGES == SubSeq(AllPages, 1, NumPages)

Pages == {PUBLIC_PAGES[k] : k \in 1..NumPages}

CORRECT_SCRIPTS == <<"sp", "sp", "U", "nl", "sp", "sp", "N", "nl",
                     "sp", "sp", "F", "nl", "sp", "sp", "A", "nl", "B">>

single_email_script == <<"E">>

fixed_css == <<"CS", "nl", "sp", "sp", "CM">>

\* 'hire-staff' in filepath: the names of the list that hold the substring
HireStaffIn(filepath) == filepath \in {"hire-staff.html"}

backup_path(filepath) == filepath \o ".bak"

----------------------------------------------------------------------------
(* The file system *)

\* a path that names no file
NoFile == <<"ENOENT">>

\* a file of the directory the script never opens
OtherFiles == {"vergo-nav.js"}

Files == Pages \cup {backup_path(p) : p \in Pages} \cup OtherFiles

exists(dir, path) == dir[path] # NoFile

\* open(path, 'r', encoding='utf-8').read(): universal newlines, "\r\n" and
\* "\r" are read as "\n"
RECURSIVE read_text(_)
read_text(d) ==
    IF d = <<>> THEN <<>>
    ELSE IF Head(d) = "cr"
         THEN IF Len(d) >= 2 /\ d[2] = "nl"
              THEN <<"nl">> \o read_text(SubSeq(d, 3, Len(d)))
              ELSE <<"nl">> \o read_text(Tail(d))
         ELSE <<Head(d)>> \o read_text(Tail(d))

\* os.linesep of the POSIX platform the script is run on (python3 shebang)
linesep == <<"nl">>

\* open(path, 'w', encoding='utf-8').write(s): "\n" is written as os.linesep
RECURSIVE write_text(_)
write_text(s) ==
    IF s = <<>> THEN <<>>
    ELSE (IF Head(s) = "nl" THEN linesep ELSE <<Head(s)>>) \o write_text(Tail(s))

----------------------------------------------------------------------------
(* The regular expressions, matched as re matches them: leftmost, greedy *)

At(c, j, t) == j <= Len(c) /\ c[j] = t

\* the end of the longest run of tokens of S that starts at j
Span(c, j, S) ==
    IF j > Len(c) THEN j
    ELSE CHOOSE e \in j..(Len(c) + 1) :
             /\ \A k \in j..(e - 1) : c[k] \in S
             /\ (e = Len(c) + 1 \/ c[e] \notin S)

\* tag \s* tag
PairEnd(c, j, t) ==
    IF At(c, j, t) /\ At(c, Span(c, j + 1, Space), t)
    THEN Span(c, j + 1, Space) + 1 ELSE 0

\* \s* tag
WsTagEnd(c, j, t) ==
    IF At(c, Span(c, j, Space), t) THEN Span(c, j, Space) + 1 ELSE 0

\* <link mobile><link styles>\s*<link mobile>
DupCssEnd(c, j) ==
    IF At(c, j, "CM") /\ At(c, j + 1, "CS") /\ At(c, Span(c, j + 2, Space), "CM")
    THEN Span(c, j + 2, Space) + 1 ELSE 0

\* <script>\s*(?:'use strict';\s*)?function toggleMenu\(\)\s*\{[^}]+\}[^<]*
\* (?:function toggleDropdown[^<]*)?(?:document\.addEventListener[^<]*)?\s*</script>
InlineNavEnd(c, j) ==
    LET j1 == Span(c, j + 1, Space)
        j2 == IF At(c, j1, "US") THEN Span(c, j1 + 1, Space) ELSE j1
        j3 == Span(c, j2 + 1, Space)
        j4 == Span(c, j3 + 1, NotRb)
        j5 == Span(c, j4 + 1, NotLt)
    IN  IF /\ At(c, j, "SO")
           /\ At(c, j2, "TM")
           /\ At(c, j3, "LB")
           /\ j4 > j3 + 1
           /\ At(c, j4, "RB")
           /\ At(c, j5, "SC")
        THEN j5 + 1 ELSE 0

\* <script>\s*function toggleMenu\(\)[^<]+</script>
SimpleNavEnd(c, j) ==
    LET j1 == Span(c, j + 1, Space)
        j2 == Span(c, j1 + 1, NotLt)
    IN  IF /\ At(c, j, "SO")
           /\ At(c, j1, "TM")
           /\ j2 > j1 + 1
           /\ At(c, j2, "SC")
        THEN j2 + 1 ELSE 0

\* \s*<script src="/vergo-utils\.js"></script>\s*</body>
UtilsBodyEnd(c, j) ==
    LET j1 == Span(c, j, Space)
        j2 == Span(c, j1 + 1, Space)
    IN  IF At(c, j1, "U") /\ At(c, j2, "B") THEN j2 + 1 ELSE 0

\* \n{4,}
BlankEnd(c, j) ==
    IF Span(c, j, {"nl"}) >= j + 4 THEN Span(c, j, {"nl"}) ELSE 0

\* where the match of pattern pat that starts at j ends (one past its last
\* token), 0 when pat does not match at j
MatchEnd(pat, c, j) ==
    CASE pat = "duplicate_email_script" -> PairEnd(c, j, "E")
      [] pat = "dup_css"                -> DupCssEnd(c, j)
      [] pat = "dup_footer"             -> PairEnd(c, j, "FC")
      [] pat = "inline_nav_script"      -> InlineNavEnd(c, j)
      [] pat = "simple_nav_script"      -> SimpleNavEnd(c, j)
      [] pat = "nav_js"                 -> WsTagEnd(c, j, "N")
      [] pat = "footer_js"              -> WsTagEnd(c, j, "F")
      [] pat = "analytics_js"           -> WsTagEnd(c, j, "A")
      [] pat = "utils_body"             -> UtilsBodyEnd(c, j)
      [] pat = "blank_lines"            -> BlankEnd(c, j)

re_search(pat, c) == \E j \in 1..Len(c) : MatchEnd(pat, c, j) # 0

\* re.sub from position j on: the leftmost match is replaced and the scan
\* goes on after it (no pattern here matches the empty string)
RECURSIVE SubFrom(_, _, _, _)
SubFrom(pat, repl, c, j) ==
    IF j > Len(c) THEN <<>>
    ELSE IF MatchEnd(pat, c, j) # 0
         THEN repl \o SubFrom(pat, repl, c, MatchEnd(pat, c, j))
         ELSE <<c[j]>> \o SubFrom(pat, repl, c, j + 1)

re_sub(pat, repl, c) == SubFrom(pat, repl, c, 1)

\* '</body>' in content
HasBody(c) == \E j \in 1..Len(c) : c[j] = "B"

\* content.replace('</body>', new)
RECURSIVE str_replace_body(_, _)
str_replace_body(c, new) ==
    IF c = <<>> THEN <<>>
    ELSE (IF Head(c) = "B" THEN new ELSE <<Head(c)>>)
         \o str_replace_body(Tail(c), new)

----------------------------------------------------------------------------
(* The rules of fix_file, each from the text it receives to the text it leaves *)

\* 1. duplicate email-decode scripts
fix_email(c) ==
    IF re_search("duplicate_email_script", c)
    THEN re_sub("duplicate_email_script", single_email_script, c) ELSE c

\* 2. duplicate CSS imports, in hire-staff.html only
fix_css(c, filepath) ==
    IF HireStaffIn(filepath) /\ re_search("dup_css", c)
    THEN re_sub("dup_css", fixed_css, c) ELSE c

\* 3. duplicate footer comments
fix_footer(c) ==
    IF re_search("dup_footer", c) THEN re_sub("dup_footer", <<"FC">>, c) ELSE c

\* 4. the inline toggleMenu/toggleDropdown script block
fix_inline_nav(c) ==
    IF re_search("inline_nav_script", c)
    THEN re_sub("inline_nav_script", <<>>, c) ELSE c

\* 4. the simpler toggleMenu pattern
fix_simple_nav(c) ==
    IF re_search("simple_nav_script", c)
    THEN re_sub("simple_nav_script", <<>>, c) ELSE c

\* 5. the three unconditional removals of the nav, footer and analytics includes
strip_shared(c) ==
    re_sub("analytics_js", <<>>, re_sub("footer_js", <<>>, re_sub("nav_js", <<>>, c)))

\* 5. the utils include in front of </body> goes, then every </body> becomes
\* CORRECT_SCRIPTS
insert_scripts(c) ==
    str_replace_body(re_sub("utils_body", <<"nl", "B">>, c), CORRECT_SCRIPTS)

fix_shared(c) ==
    IF HasBody(strip_shared(c)) THEN insert_scripts(strip_shared(c))
    ELSE strip_shared(c)

\* rule 6 with the replacement one newline too long
fix_blank_lines_four(c) == re_sub("blank_lines", <<"nl", "nl", "nl", "nl">>, c)

\* 6. multiple blank lines
fix_blank_lines(c) == re_sub("blank_lines", <<"nl", "nl", "nl">>, c)

\* the comparison left out: every page is rewritten
changed_always(c, o) == TRUE

\* if content != original
changed(c, o) == c # o

\* the backup taken of the fixed text instead of the loaded one
backup_text_fixed(c, o) == c

\* what the backup file receives
backup_text(c, o) == o

\* the counter bumped for every page, fixed or not
count_after_every(n, ret) == n + 1

\* fixed_count after a call of fix_file that returned ret
count_after(n, ret) == IF ret THEN n + 1 ELSE n

\* changes.append(label) when the rule fired
Append_if(ch, fired, label) == IF fired THEN Append(ch, label) ELSE ch

----------------------------------------------------------------------------
(* main *)

filepath == PUBLIC_PAGES[i]

Stopped == mpc \in {"start", "done", "aborted"}

\* python3 fix-vergo-files.py in a directory that holds none of the pages
MainAbort ==
    /\ Stopped
    /\ runs < MaxRuns
    /\ ~ \E p \in Pages : exists(fs, p)
    /\ mpc' = "aborted"
    /\ runs' = runs + 1
    /\ fs0' = fs
    /\ io' = <<>>
    /\ reported' = "none"
    /\ UNCHANGED <<fs, i, fixed_count, pc, content, original, changes, prev>>

\* python3 fix-vergo-files.py, up to the head of the for loop
MainBegin ==
    /\ Stopped
    /\ runs < MaxRuns
    /\ \E p \in Pages : exists(fs, p)
    /\ mpc' = "loop"
    /\ runs' = runs + 1
    /\ fs0' = fs
    /\ io' = <<>>
    /\ reported' = "none"
    /\ fixed_count' = 0
    /\ i' = 1
    /\ pc' = "call"
    /\ UNCHANGED <<fs, content, original, changes, prev>>

\* the loop is over: the count is printed and the process ends
MainReport ==
    /\ mpc = "loop"
    /\ pc = "call"
    /\ i > NumPages
    /\ mpc' = "done"
    /\ reported' = fixed_count
    /\ prev' = [p \in Pages |-> IF fs[p] # fs0[p] THEN fs0[p] ELSE prev[p]]
    /\ UNCHANGED <<fs, i, fixed_count, pc, content, original, changes, io, fs0, runs>>

----------------------------------------------------------------------------
(* fix_file(filepath) *)

InCall(at) == mpc = "loop" /\ i <= NumPages /\ pc = at

\* the file is not there: return False
FixNotFound ==
    /\ InCall("call")
    /\ ~ exists(fs, filepath)
    /\ fixed_count' = count_after(fixed_count, FALSE)
    /\ i' = i + 1
    /\ UNCHANGED <<fs, mpc, reported, pc, content, original, changes, io, fs0, runs, prev>>

FixRead ==
    /\ InCall("call")
    /\ exists(fs, filepath)
    /\ content' = read_text(fs[filepath])
    /\ original' = read_text(fs[filepath])
    /\ changes' = <<>>
    /\ io' = Append(io, <<"r", filepath>>)
    /\ pc' = "email"
    /\ UNCHANGED <<fs, mpc, i, fixed_count, reported, fs0, runs, prev>>

\* one rule: the text, the labels and the position move, nothing else
Rule(at, new, fired, label, to) ==
    /\ InCall(at)
    /\ content' = new
    /\ changes' = Append_if(changes, fired, label)
    /\ pc' = to
    /\ UNCHANGED <<fs, mpc, i, fixed_count, reported, original, io, fs0, runs, prev>>

FixEmail ==
    Rule("email", fix_email(content), re_search("duplicate_email_script", content),
         "Removed duplicate email-decode script", "css")

FixCss ==
    Rule("css", fix_css(content, filepath),
         HireStaffIn(filepath) /\ re_search("dup_css", content),
         "Fixed duplicate CSS imports", "footer")

FixFooter ==
    Rule("footer", fix_footer(content), re_search("dup_footer", content),
         "Removed duplicate footer comment", "inline")

FixInlineNav ==
    Rule("inline", fix_inline_nav(content), re_search("inline_nav_script", content),
         "Removed inline nav scripts (now in vergo-nav.js)", "simple")

FixSimpleNav ==
    Rule("simple", fix_simple_nav(content), re_search("simple_nav_script", content),
         "Removed simple inline toggleMenu", "shared")

FixShared ==
    Rule("shared", fix_shared(content), HasBody(strip_shared(content)),
         "Added shared component scripts", "blank")

FixBlankLines ==
    Rule("blank", fix_blank_lines(content), FALSE, "", "cmp")

\* content == original: return False, nothing is written
FixUnchanged ==
    /\ InCall("cmp")
    /\ ~ changed(content, original)
    /\ fixed_count' = count_after(fixed_count, FALSE)
    /\ i' = i + 1
    /\ pc' = "call"
    /\ UNCHANGED <<fs, mpc, reported, content, original, changes, io, fs0, runs, prev>>

\* content != original: the backup is written first
FixBackup ==
    /\ InCall("cmp")
    /\ changed(content, original)
    /\ fs' = [fs EXCEPT ![backup_path(filepath)] = write_text(backup_text(content, original))]
    /\ io' = Append(io, <<"w", backup_path(filepath)>>)
    /\ pc' = "write"
    /\ UNCHANGED <<mpc, i, fixed_count, reported, content, original, changes, fs0, runs, prev>>

\* then the page is overwritten: return True
FixWrite ==
    /\ InCall("write")
    /\ fs' = [fs EXCEPT ![filepath] = write_text(content)]
    /\ io' = Append(io, <<"w", filepath>>)
    /\ fixed_count' = count_after(fixed_count, TRUE)
    /\ i' = i + 1
    /\ pc' = "call"
    /\ UNCHANGED <<mpc, reported, content, original, changes, fs0, runs, prev>>

Next ==
    \/ MainAbort
    \/ MainBegin
    \/ MainReport
    \/ FixNotFound
    \/ FixRead
    \/ FixEmail
    \/ FixCss
    \/ FixFooter
    \/ FixInlineNav
    \/ FixSimpleNav
    \/ FixShared
    \/ FixBlankLines
    \/ FixUnchanged
    \/ FixBackup
    \/ FixWrite

----------------------------------------------------------------------------
(* The directories the script is started in *)

RECURSIVE Flatten(_)
Flatten(ps) == IF ps = <<>> THEN <<>> ELSE Head(ps) \o Flatten(Tail(ps))

\* the texts built from at most n pieces of S
Texts(S, n) == {Flatten(ps) : ps \in UNION {[1..m -> S] : m \in 0..n}}

\* pages as they lie on disk, for the runs of main
DriverInputs ==
    { <<"x", "B">>,
      <<"x", "nl", "B">>,
      <<"x", "nl">> \o CORRECT_SCRIPTS,
      <<"x", "cr", "nl", "B">>,
      <<"x", "cr", "nl">> \o CORRECT_SCRIPTS,
      <<"x">>,
      <<"CM", "CS", "nl", "CM", "nl", "B">>,
      <<"E", "nl", "E", "nl", "B">> }

\* pages built from the includes the rules 1 and 5 look for
IncludePieces ==
    { <<"x">>, <<"nl">>, <<"E">>, <<"N">>, <<"U">>, <<"B">>, CORRECT_SCRIPTS }

\* the opening of an inline script that defines toggleMenu, up to its "{"
NavHeads == { <<"SO", "TM", "LB">>, <<"SO", "nl", "US", "sp", "TM", "sp", "LB">> }

\* what may follow the "{" ("{a}" is a nested block)
BodyPieces ==
    { <<"x">>, <<"LB", "x", "RB">>, <<"RB">>, <<"LT">>, <<"TD">>, <<"DA">>, <<"nl">> }

\* pages with one such script, with text before it and after it
NavInputs ==
    { <<"x">> \o h \o b \o <<"SC", "x">> : h \in NavHeads, b \in Texts(BodyPieces, MaxLen) }

\* pages built from newlines and from what the rules 4 and 5 take away
BlankPieces ==
    { <<"x">>, <<"nl">>, <<"nl", "nl", "nl">>, <<"N">>, <<"B">>,
      <<"SO", "TM", "LB", "x", "RB", "SC">> }

NoPrev == [p \in Pages |-> NoFile]

\* the state before the first run, the pages given: no backup yet
Start(pages) ==
    /\ fs = [f \in Files |-> IF f \in Pages THEN pages[f]
                             ELSE IF f \in OtherFiles THEN <<"x">> ELSE NoFile]
    /\ fs0 = fs
    /\ mpc = "start"
    /\ i = 1
    /\ fixed_count = 0
    /\ reported = "none"
    /\ pc = "call"
    /\ content = <<>>
    /\ original = <<>>
    /\ changes = <<>>
    /\ io = <<>>
    /\ runs = 0
    /\ prev = NoPrev

\* a directory with the one page p holding text c
OnePage(p, c) == [q \in Pages |-> IF q = p THEN c ELSE NoFile]

\* any of the pages may be missing
Init == \E pages \in [Pages -> DriverInputs \cup {NoFile}] : Start(pages)

InitText ==
    \/ Start(NoPrev)
    \/ \E p \in Pages, c \in Texts(IncludePieces, MaxLen) \cup NavInputs :
           Start(OnePage(p, c))

InitBlank ==
    \/ Start(NoPrev)
    \/ \E p \in Pages, c \in Texts(BlankPieces, MaxLen) : Start(OnePage(p, c))

Spec == Init /\ [][Next]_vars

SpecText == InitText /\ [][Next]_vars

SpecBlank == InitBlank /\ [][Next]_vars

----------------------------------------------------------------------------
(* Notions the claims are stated with *)

Count(c, t) == Cardinality({j \in 1..Len(c) : c[j] = t})

Has(seq, e) == \E k \in 1..Len(seq) : seq[k] = e

\* two tags t with nothing but whitespace between them
AdjacentPair(c, t) ==
    \E a \in 1..Len(c), b \in 1..Len(c) :
        /\ a < b
        /\ c[a] = t
        /\ c[b] = t
        /\ \A k \in (a + 1)..(b - 1) : c[k] \in Space

\* four newlines in a row
NlRun4(c) == \E j \in 1..Len(c) : \A k \in j..(j + 3) : At(c, k, "nl")

\* the lengths of the maximal runs of newlines, in order
RECURSIVE NlRunsFrom(_, _)
NlRunsFrom(c, j) ==
    IF j > Len(c) THEN <<>>
    ELSE IF c[j] = "nl"
         THEN <<Span(c, j, {"nl"}) - j>> \o NlRunsFrom(c, Span(c, j, {"nl"}))
         ELSE NlRunsFrom(c, j + 1)

NlRuns(c) == NlRunsFrom(c, 1)

Min3(n) == IF n > 3 THEN 3 ELSE n

\* a is what is left of b when some of b's entries are taken out
RECURSIVE IsSubseq(_, _)
IsSubseq(a, b) ==
    IF a = <<>> THEN TRUE
    ELSE IF b = <<>> THEN FALSE
    ELSE IF Head(a) = Head(b) THEN IsSubseq(Tail(a), Tail(b))
    ELSE IsSubseq(a, Tail(b))

\* the text as runs: <<token, length>>, only newlines are grouped
RECURSIVE RleFrom(_, _)
RleFrom(c, j) ==
    IF j > Len(c) THEN <<>>
    ELSE IF c[j] = "nl"
         THEN << <<"nl", Span(c, j, {"nl"}) - j>> >> \o RleFrom(c, Span(c, j, {"nl"}))
         ELSE << <<c[j], 1>> >> \o RleFrom(c, j + 1)

Rle(c) == RleFrom(c, 1)

\* every run of four or more cut to three, the rest as it is
Capped(r) == [k \in 1..Len(r) |-> <<r[k][1], Min3(r[k][2])>>]

Shared == {"U", "N", "F", "A"}

\* the canonical block ends at j, with its </body>
BlockEndsAt(c, j) ==
    /\ j >= Len(CORRECT_SCRIPTS)
    /\ j <= Len(c)
    /\ SubSeq(c, j - Len(CORRECT_SCRIPTS) + 1, j) = CORRECT_SCRIPTS

\* position j lies in a canonical block
InBlock(c, j) ==
    \E e \in j..(j + Len(CORRECT_SCRIPTS) - 1) : BlockEndsAt(c, e)

\* the page as the rules other than rule 5 leave it
OtherRules(c, f) ==
    fix_blank_lines(fix_simple_nav(fix_inline_nav(fix_footer(fix_css(fix_email(c), f)))))

\* the page as all the rules leave it
AllRules(c, f) ==
    fix_blank_lines(fix_shared(fix_simple_nav(fix_inline_nav(
        fix_footer(fix_css(fix_email(c), f))))))

\* the "}" that closes the "{" at k (depth counts the braces open before j), 0 if none
RECURSIVE CloseFrom(_, _, _)
CloseFrom(c, j, depth) ==
    IF j > Len(c) THEN 0
    ELSE IF c[j] = "LB" THEN CloseFrom(c, j + 1, depth + 1)
    ELSE IF c[j] = "RB"
         THEN IF depth = 1 THEN j ELSE CloseFrom(c, j + 1, depth - 1)
         ELSE CloseFrom(c, j + 1, depth)

\* a..b is an inline script that defines toggleMenu: <script>, 'use strict';
\* or not, function toggleMenu() with its braces closed, then script text up
\* to the first </script>
NavBlock(c, a, b) ==
    LET j1 == Span(c, a + 1, Space)
        j2 == IF At(c, j1, "US") THEN Span(c, j1 + 1, Space) ELSE j1
        j3 == Span(c, j2 + 1, Space)
    IN  /\ a < b
        /\ c[a] = "SO"
        /\ c[b] = "SC"
        /\ \A k \in (a + 1)..(b - 1) : c[k] \notin {"SO", "SC"}
        /\ At(c, j2, "TM")
        /\ At(c, j3, "LB")
        /\ CloseFrom(c, j3, 0) # 0
        /\ CloseFrom(c, j3, 0) < b

Cut(c, a, b) == SubSeq(c, 1, a - 1) \o SubSeq(c, b + 1, Len(c))

\* the page whose call of fix_file has just returned
last == PUBLIC_PAGES[i - 1]

Returned == mpc \in {"loop", "done"} /\ pc = "call" /\ i > 1

Written(f) == Has(io, <<"w", f>>)

----------------------------------------------------------------------------
(* The claims *)

\* C1: idempotence of the pipeline: a run on what an earlier run left behind
\* changes nothing (content == original when the second run compares them).
C1_Idempotent ==
    (runs >= 2 /\ pc = "cmp") => content = original

\* C2: for every input that holds </body>, every </body> of the output has the
\* block utils, nav, footer, analytics right in front of it, and no include of
\* these four scripts stands anywhere else in the output.
C2_CanonicalBlockOnly ==
    (pc = "cmp" /\ HasBody(original)) =>
        /\ \A j \in 1..Len(content) : content[j] = "B" => BlockEndsAt(content, j)
        /\ \A j \in 1..Len(content) : content[j] \in Shared => InBlock(content, j)

\* C3: for every input without </body>, rule 5 does nothing at all: the output
\* is what the other rules make of the input, and no label of rule 5 is recorded.
C3_NoBodySkipsRule5 ==
    (pc = "cmp" /\ ~ HasBody(original)) =>
        /\ content = OtherRules(original, filepath)
        /\ ~ Has(changes, "Added shared component scripts")

\* a page that ends its body with the canonical block and has nothing for
\* the other rules to do
Clean(c) ==
    /\ Count(c, "B") = 1
    /\ \A j \in 1..Len(c) : c[j] = "B" => BlockEndsAt(c, j)
    /\ \A t \in Shared : Count(c, t) = 1
    /\ ~ AdjacentPair(c, "E")
    /\ ~ AdjacentPair(c, "FC")
    /\ Count(c, "TM") = 0
    /\ ~ NlRun4(c)

\* C4: a run on a clean page reports no change, whatever whitespace stands
\* in front of the canonical block.
C4_CleanInputNoOp ==
    (pc = "cmp" /\ Clean(original)) => content = original

\* C5: when two or more email-decode tags stand next to each other in the
\* input, no two stand next to each other in the output, and the label
\* "Removed duplicate email-decode script" is recorded.
C5_EmailGroupCollapsed ==
    (pc = "cmp" /\ AdjacentPair(original, "E")) =>
        /\ ~ AdjacentPair(content, "E")
        /\ Has(changes, "Removed duplicate email-decode script")

\* C6: an inline script that defines toggleMenu is gone after the two nav
\* rules, whatever its body holds, and nothing outside it is deleted.
C6_InlineNavRemoved ==
    \A a \in 1..Len(original), b \in 1..Len(original) :
        (/\ pc = "shared"
         /\ NavBlock(original, a, b)
         /\ Count(original, "SO") = 1
         /\ original = fix_footer(fix_css(fix_email(original), filepath)))
        => content = Cut(original, a, b)

\* C7 as stated, on the pages that hold </body>: the output holds no run of
\* four or more newlines, and every run of newlines of the input is found in
\* the output, in order, as three newlines when it was four or longer and
\* untouched otherwise (the output holds the newlines of the inserted block
\* besides).
C7_RunsOfInputKept ==
    (pc = "cmp" /\ HasBody(original)) =>
        /\ ~ NlRun4(content)
        /\ IsSubseq([k \in 1..Len(NlRuns(original)) |-> Min3(NlRuns(original)[k])],
                    NlRuns(content))

\* C7 as amended: the output holds no run of four or more newlines; rule 6
\* turns every run of four or more newlines of the text it receives (the text
\* the rules 1 to 5 leave) into exactly three and touches nothing else.
C7_BlankLinesCollapsed ==
    /\ [](pc = "cmp" => ~ NlRun4(content))
    /\ [][pc = "blank" => Rle(content') = Capped(Rle(content))]_vars

\* C7 happens: a run of four or more newlines of the input is three in the output
C7_Witness ==
    /\ pc = "cmp"
    /\ \E k \in 1..Len(NlRuns(original)) : NlRuns(original)[k] >= 4
    /\ \E k \in 1..Len(NlRuns(content)) : NlRuns(content)[k] = 3

\* C8: a page whose text the rules changed gets name.bak with the text as
\* loaded, written before the page itself is overwritten with the new text; a
\* page whose text is unchanged is not written and gets no backup, labels or
\* not; nothing else is written.
C8_BackupThenRewrite ==
    /\ pc = "write" =>
           /\ fs[backup_path(filepath)] = original
           /\ fs[filepath] = fs0[filepath]
    /\ (Returned /\ exists(fs0, last)) =>
           IF content # original
           THEN fs[backup_path(last)] = original /\ fs[last] = content
           ELSE /\ fs[last] = fs0[last]
                /\ fs[backup_path(last)] = fs0[backup_path(last)]
                /\ ~ Written(last)
                /\ ~ Written(backup_path(last))
    /\ \A k \in 1..Len(io) :
           io[k][1] = "w" =>
               \E p \in Pages :
                   \/ io[k][2] = backup_path(p)
                   \/ io[k][2] = p /\ k > 1 /\ io[k - 1] = <<"w", backup_path(p)>>
    /\ \A f \in Files : fs[f] # fs0[f] => Written(f)

\* C8 happens: the first page was rewritten with a backup, the second one
\* had a label recorded and was left alone
C8_Witness ==
    /\ Returned
    /\ i = 3
    /\ fs[PUBLIC_PAGES[1]] # fs0[PUBLIC_PAGES[1]]
    /\ fs[backup_path(PUBLIC_PAGES[1])] = read_text(fs0[PUBLIC_PAGES[1]])
    /\ exists(fs0, last)
    /\ content = original
    /\ changes # <<>>
    /\ ~ exists(fs, backup_path(last))

\* C9: a page that is absent is never created and gets no backup; every page
\* that is present is read and fixed, whichever others are missing; with no
\* page at all the run aborts before it opens a file; the count reported is
\* the number of pages changed.
C9_AbsentPages ==
    /\ \A p \in Pages :
           ~ exists(fs0, p) => ~ exists(fs, p) /\ ~ exists(fs, backup_path(p))
    /\ mpc = "done" =>
           \A p \in Pages :
               exists(fs0, p) =>
                   /\ Has(io, <<"r", p>>)
                   /\ fs[p] = IF AllRules(read_text(fs0[p]), p) = read_text(fs0[p])
                              THEN fs0[p]
                              ELSE write_text(AllRules(read_text(fs0[p]), p))
    /\ (\A p \in Pages : ~ exists(fs0, p)) =>
           mpc \in {"start", "aborted"} /\ io = <<>> /\ fs = fs0
    /\ mpc = "aborted" => \A p \in Pages : ~ exists(fs0, p)
    /\ mpc = "done" =>
           reported = Cardinality({p \in Pages : fs[p] # fs0[p]})

\* C9 happens: the first page of the list is missing, a later one was fixed
C9_Witness ==
    /\ mpc = "done"
    /\ ~ exists(fs0, PUBLIC_PAGES[1])
    /\ reported = 1
    /\ \E p \in Pages : Written(p)

\* C10 as stated: after every run, a backup that exists holds the content the
\* page had on disk right before the last run that changed the page, and a
\* run that leaves the page alone leaves the backup alone.
C10_BackupIsPageBefore ==
    mpc = "done" =>
        \A p \in Pages :
            /\ fs[p] = fs0[p] => fs[backup_path(p)] = fs0[backup_path(p)]
            /\ exists(fs, backup_path(p)) => fs[backup_path(p)] = prev[p]

\* C10 as amended: after every run, a backup that exists holds the text the
\* last run that changed the page loaded from it, that is the content the
\* page had right before that run with "\r\n" and "\r" read as "\n"; a run
\* that leaves the page alone leaves the backup alone, and a run that
\* changes it overwrites the backup.
C10_BackupIsTextLoaded ==
    mpc = "done" =>
        \A p \in Pages :
            /\ fs[p] = fs0[p] => fs[backup_path(p)] = fs0[backup_path(p)]
            /\ fs[p] # fs0[p] => fs[backup_path(p)] = read_text(fs0[p])
            /\ exists(fs, backup_path(p)) =>
                   /\ exists(fs, p)
                   /\ fs[backup_path(p)] = read_text(prev[p])

\* C10 happens: a later run changed the page again and overwrote the backup
\* of the run before it
C10_Witness ==
    /\ mpc = "done"
    /\ runs >= 2
    /\ \E p \in Pages :
           /\ exists(fs0, backup_path(p))
           /\ fs[backup_path(p)] # fs0[backup_path(p)]

====
